---- MODULE Spec2Model ----
(***************************************************************************)
(* A model of insights/core/dr.py: the component registry, the requirement *)
(* algebra, the broker and the run loop.                                   *)
(*                                                                         *)
(* Components, type tags, observers and values are opaque handles; they    *)
(* are modelled as strings.  A Python dict is a function whose DOMAIN is   *)
(* the key set; None is the string "None".                                 *)
(***************************************************************************)
EXTENDS Integers, Sequences, FiniteSets, TLC

None == "None"

\* The component handles of the model.
Comps == {"A", "B", "C"}

\* GROUPS = enum("single", "cluster")
GROUPS == {"single", "cluster"}

\* ANY_TYPE = object()
ANY_TYPE == "ANY"

\* The type tags (decorators) and the observers of the model.
Types == {"T1", "T2"}
TypeKeys == Types \cup {ANY_TYPE}
Observers == {"o1", "o2"}

\* The values a seeded broker holds, and the values a component body returns.
SeedValues == {"v0"}
BodyValues == {"v1"}

\* How often run() is called on one broker, and how many values are put
\* into a broker before its first run.
MaxRuns == 2
MaxPuts == 1

EmptyMap == [x \in {} |-> None]

Range(s) == {s[i] : i \in 1..Len(s)}

\* ------------------------------------------------------------------------
\* Requirement specs.  An entry of `requires` is a single component or a
\* list of components (an any-of group): isList is isinstance(r, list).
\* ------------------------------------------------------------------------
One(c) == [isList |-> FALSE, items |-> <<c>>]
AnyOf(cs) == [isList |-> TRUE, items |-> cs]

IsList(r) == r.isList
IsSingle(r) == ~r.isList

RECURSIVE Flatten(_)
Flatten(ss) == IF ss = <<>> THEN <<>> ELSE Head(ss) \o Flatten(Tail(ss))

\* split_requirements: (req_all, req_any)
split_requirements(requires) ==
    LET singles == SelectSeq(requires, IsSingle)
        lists   == SelectSeq(requires, IsList)
    IN  << [i \in 1..Len(singles) |-> singles[i].items[1]],
           [i \in 1..Len(lists) |-> lists[i].items] >>

\* ------------------------------------------------------------------------
\* The registry: the module-level collections.
\*
\*   delegates          the Delegate objects constructed so far; a Delegate
\*                      is named by its index here (object identity)
\*   DELEGATES          component -> index of its Delegate
\*   DEPENDENCIES       component -> the set OBJECT held under that key:
\*                      n > 0 is delegates[n].dependencies itself (line 315
\*                      stores the delegate's own set, no copy), 0 is the
\*                      set the defaultdict created for the key
\*   defaultSets        component -> contents of that defaultdict-made set
\*   DEPENDENTS         component -> set (a missing key reads as empty)
\*   COMPONENTS         group -> (component -> set)
\*   COMPONENTS_BY_TYPE type -> set
\*   IGNORE             component -> set
\*   TYPE_OBSERVERS     type -> set of observers
\* ------------------------------------------------------------------------
VARIABLES delegates, DELEGATES, DEPENDENCIES, defaultSets, DEPENDENTS,
          COMPONENTS, COMPONENTS_BY_TYPE, IGNORE, TYPE_OBSERVERS

regVars == <<delegates, DELEGATES, DEPENDENCIES, defaultSets, DEPENDENTS,
             COMPONENTS, COMPONENTS_BY_TYPE, IGNORE, TYPE_OBSERVERS>>

GroupKeys == GROUPS \cup {None}
TagKeys == Types \cup {None}

\* The registry as one value, so that its operations compose.
Registry ==
    [delegates |-> delegates, DELEGATES |-> DELEGATES,
     DEPENDENCIES |-> DEPENDENCIES, defaultSets |-> defaultSets,
     DEPENDENTS |-> DEPENDENTS, COMPONENTS |-> COMPONENTS,
     COMPONENTS_BY_TYPE |-> COMPONENTS_BY_TYPE, IGNORE |-> IGNORE,
     TYPE_OBSERVERS |-> TYPE_OBSERVERS]

\* The module just imported: every collection empty.
EmptyRegistry ==
    [delegates |-> <<>>, DELEGATES |-> EmptyMap,
     DEPENDENCIES |-> EmptyMap, defaultSets |-> [c \in Comps |-> {}],
     DEPENDENTS |-> [c \in Comps |-> {}],
     COMPONENTS |-> [g \in GroupKeys |-> EmptyMap],
     COMPONENTS_BY_TYPE |-> [t \in TagKeys |-> {}],
     IGNORE |-> [c \in Comps |-> {}],
     TYPE_OBSERVERS |-> [t \in TypeKeys |-> {}]]

\* Delegate.__init__, lines 466-474: _all | _any | _optional
DelegateDependencies(requires, optional) ==
    LET sp == split_requirements(requires)
    IN  Range(sp[1]) \cup Range(Flatten(sp[2])) \cup Range(optional)

\* Variant of add_dependent: the two arguments are taken the other way round.
add_dependent_swapped(R, component, dep) ==
    [R EXCEPT !.DEPENDENTS[dep] = @ \cup {component}]

\* add_dependent(component, dep): DEPENDENTS[component].add(dep)
add_dependent(R, component, dep) ==
    [R EXCEPT !.DEPENDENTS[component] = @ \cup {dep}]

RECURSIVE AddDependents(_, _, _)
AddDependents(R, ds, component) ==
    IF ds = {} THEN R
    ELSE LET d == CHOOSE x \in ds : TRUE
         IN  AddDependents(add_dependent(R, d, component), ds \ {d}, component)

\* Delegate(component, requires, optional), followed by the assignments of
\* group, executor and type that new_component_type's _f makes on the fresh
\* object (lines 547-552); a Delegate built directly keeps None for both.
DelegateInit(R, component, requires, optional, group, type, executor) ==
    LET self == [component |-> component,
                 executor |-> executor,
                 group |-> group,
                 requires |-> requires,
                 optional |-> optional,
                 added_dependencies |-> <<>>,
                 type |-> type,
                 dependencies |-> DelegateDependencies(requires, optional)]
    IN  AddDependents([R EXCEPT !.delegates = Append(@, self)],
                      self.dependencies, component)

\* get_delegate
get_delegate(R, component) ==
    IF component \in DOMAIN R.DELEGATES THEN R.DELEGATES[component] ELSE 0

\* get_dependencies, with @defaults(set())
get_dependencies(R, component) ==
    IF component \in DOMAIN R.DELEGATES
    THEN R.delegates[R.DELEGATES[component]].dependencies
    ELSE {}

\* get_dependents
get_dependents(R, component) == R.DEPENDENTS[component]

\* get_component_type, with @defaults(None)
get_component_type(R, component) ==
    IF component \in DOMAIN R.DELEGATES
    THEN R.delegates[R.DELEGATES[component]].type
    ELSE None

\* The contents of the set stored under DEPENDENCIES[component].
DependenciesOf(R, component) ==
    IF R.DEPENDENCIES[component] = 0
    THEN R.defaultSets[component]
    ELSE R.delegates[R.DEPENDENCIES[component]].dependencies

\* dict[key] |= values / dict[key].add(value) on a defaultdict(set)
SetUnionAt(m, key, values) ==
    IF key \in DOMAIN m
    THEN [m EXCEPT ![key] = @ \cup values]
    ELSE (key :> values) @@ m

\* Variant of register_component: line 315 stores a copy of the delegate's
\* set under DEPENDENCIES[component], not the set itself.
register_component_copies(R, delegate) ==
    LET d == R.delegates[delegate]
        component == d.component
        dependencies == d.dependencies
    IN  [R EXCEPT
          !.DEPENDENCIES = (component :> 0) @@ @,
          !.defaultSets[component] = dependencies,
          !.COMPONENTS[d.group] = SetUnionAt(@, component, dependencies),
          !.COMPONENTS_BY_TYPE[d.type] = @ \cup {component},
          !.DELEGATES = (component :> delegate) @@ @]

\* register_component(delegate), lines 311-319
register_component(R, delegate) ==
    LET d == R.delegates[delegate]
        component == d.component
        dependencies == d.dependencies
    IN  [R EXCEPT
          !.DEPENDENCIES = (component :> delegate) @@ @,
          !.COMPONENTS[d.group] = SetUnionAt(@, component, dependencies),
          !.COMPONENTS_BY_TYPE[d.type] = @ \cup {component},
          !.DELEGATES = (component :> delegate) @@ @]

\* Delegate.add_dependency(dep), lines 481-488
Delegate_add_dependency(R, self, dep) ==
    LET d == R.delegates[self]
        R1 == [R EXCEPT !.delegates[self].added_dependencies = Append(@, dep),
                        !.delegates[self].dependencies = @ \cup {dep}]
        R2 == add_dependent(R1, dep, d.component)
        \* DEPENDENCIES[self.component].add(dep): the set under the key is
        \* the registered delegate's own set, or one the defaultdict makes
        R3 == IF d.component \notin DOMAIN R2.DEPENDENCIES
              THEN [R2 EXCEPT !.DEPENDENCIES = (d.component :> 0) @@ @,
                              !.defaultSets[d.component] = {dep}]
              ELSE IF R2.DEPENDENCIES[d.component] = 0
              THEN [R2 EXCEPT !.defaultSets[d.component] = @ \cup {dep}]
              ELSE [R2 EXCEPT
                     !.delegates[R2.DEPENDENCIES[d.component]].dependencies =
                         @ \cup {dep}]
    IN  [R3 EXCEPT !.COMPONENTS[d.group] = SetUnionAt(@, d.component, {dep})]

\* add_ignore(c, i)
add_ignore(R, c, i) == [R EXCEPT !.IGNORE[c] = @ \cup {i}]

\* add_observer(o, component_type)
add_observer(R, o, component_type) ==
    [R EXCEPT !.TYPE_OBSERVERS[component_type] = @ \cup {o}]

\* The annotation new_component_type's registrar returns, applied to func
\* (lines 546-554): construct the Delegate, fill it in, register it.
Decorate(R, func, requires, optional, group, type, executor) ==
    LET R1 == DelegateInit(R, func, requires, optional, group, type, executor)
    IN  register_component(R1, Len(R1.delegates))

SetRegistry(R) ==
    /\ delegates' = R.delegates
    /\ DELEGATES' = R.DELEGATES
    /\ DEPENDENCIES' = R.DEPENDENCIES
    /\ defaultSets' = R.defaultSets
    /\ DEPENDENTS' = R.DEPENDENTS
    /\ COMPONENTS' = R.COMPONENTS
    /\ COMPONENTS_BY_TYPE' = R.COMPONENTS_BY_TYPE
    /\ IGNORE' = R.IGNORE
    /\ TYPE_OBSERVERS' = R.TYPE_OBSERVERS

InitRegistry(R) ==
    /\ delegates = R.delegates
    /\ DELEGATES = R.DELEGATES
    /\ DEPENDENCIES = R.DEPENDENCIES
    /\ defaultSets = R.defaultSets
    /\ DEPENDENTS = R.DEPENDENTS
    /\ COMPONENTS = R.COMPONENTS
    /\ COMPONENTS_BY_TYPE = R.COMPONENTS_BY_TYPE
    /\ IGNORE = R.IGNORE
    /\ TYPE_OBSERVERS = R.TYPE_OBSERVERS

\* ------------------------------------------------------------------------
\* The broker.  A Broker object is a record of its fields; exec_times keeps
\* the keys only (the measured durations are wall-clock readings), and
\* tracebacks, which nothing reads back, is left out.
\* ------------------------------------------------------------------------

\* Variant of Broker.__init__: TYPE_OBSERVERS is not copied.
Broker_without_snapshot(R, seed_instances) ==
    [instances |-> seed_instances,
     missing_requirements |-> EmptyMap,
     exceptions |-> EmptyMap,
     exec_times |-> {},
     observers |-> [t \in TypeKeys |-> {}]]

\* Variant of Broker.__init__: the seed's instances are not copied.
Broker_unseeded(R, seed_instances) ==
    [instances |-> EmptyMap,
     missing_requirements |-> EmptyMap,
     exceptions |-> EmptyMap,
     exec_times |-> {},
     observers |-> [t \in TypeKeys |-> R.TYPE_OBSERVERS[t]]]

\* Broker.__init__(seed_broker), lines 329-339; seed_instances is
\* seed_broker.instances, or the empty dict when there is no seed.
Broker(R, seed_instances) ==
    [instances |-> seed_instances,
     missing_requirements |-> EmptyMap,
     exceptions |-> EmptyMap,
     exec_times |-> {},
     observers |-> [t \in TypeKeys |-> R.TYPE_OBSERVERS[t]]]

\* Variant of Broker.__contains__: no component is ever found.
Broker_contains_nothing(b, component) == FALSE

\* Broker.__contains__
Broker_contains(b, component) == component \in DOMAIN b.instances

\* Broker.get(component), default None
Broker_get(b, component) ==
    IF component \in DOMAIN b.instances THEN b.instances[component] ELSE None

\* Variant of Broker.__setitem__: a present key is overwritten.
Broker_setitem_overwrites(b, component, instance) ==
    [b EXCEPT !.instances = (component :> instance) @@ @]

\* Broker.__setitem__, lines 384-389: KeyError when the key is present
Broker_setitem_raises(b, component) == component \in DOMAIN b.instances

Broker_setitem(b, component, instance) ==
    IF component \in DOMAIN b.instances
    THEN b
    ELSE [b EXCEPT !.instances = (component :> instance) @@ @]

\* Variant of Broker.add_exception: a MissingRequirements falls through to
\* the exceptions list as well.
Broker_add_exception_falls_through(b, component, ex) ==
    LET b1 == IF ex.cls = "MissingRequirements"
              THEN [b EXCEPT !.missing_requirements =
                                 (component :> ex.requirements) @@ @]
              ELSE b
    IN  [b1 EXCEPT !.exceptions =
                       (component :>
                           Append(IF component \in DOMAIN @ THEN @[component]
                                  ELSE <<>>, ex.cls)) @@ @]

\* Broker.add_exception, lines 361-366
Broker_add_exception(b, component, ex) ==
    IF ex.cls = "MissingRequirements"
    THEN [b EXCEPT !.missing_requirements =
                       (component :> ex.requirements) @@ @]
    ELSE [b EXCEPT !.exceptions =
                       (component :>
                           Append(IF component \in DOMAIN @ THEN @[component]
                                  ELSE <<>>, ex.cls)) @@ @]

\* Broker.add_observer
Broker_add_observer(b, o, component_type) ==
    [b EXCEPT !.observers[component_type] = @ \cup {o}]

\* Variant of fire_observers: the observers under ANY_TYPE are forgotten.
fire_observers_type_only(R, b, component) ==
    LET type == get_component_type(R, component)
    IN  IF type = None THEN {} ELSE b.observers[type]

\* Broker.fire_observers, lines 351-355: the observers it iterates over
fire_observers_set(R, b, component) ==
    LET type == get_component_type(R, component)
    IN  IF type = None THEN {}
        ELSE b.observers[type] \cup b.observers[ANY_TYPE]

\* ------------------------------------------------------------------------
\* Requirement algebra and executors.
\* ------------------------------------------------------------------------
NoRequirements == << <<>>, <<>> >>

\* Variant of get_missing_requirements: absent singletons are not reported.
get_missing_requirements_groups_only(R, func, requires, d) ==
    IF requires = <<>>
    THEN [kind |-> "None", requirements |-> NoRequirements]
    ELSE IF \E i \in R.IGNORE[func] : Broker_contains(d, i)
    THEN [kind |-> "SkipComponent", requirements |-> NoRequirements]
    ELSE LET sp == split_requirements(requires)
             keys == DOMAIN d.instances
             disjoint(r) == Range(r) \cap keys = {}
             req_any == SelectSeq(sp[2], disjoint)
         IN  IF req_any # <<>>
             THEN [kind |-> "missing", requirements |-> <<<<>>, req_any>>]
             ELSE [kind |-> "None", requirements |-> NoRequirements]

\* Variant of get_missing_requirements: IGNORE is not consulted.
get_missing_requirements_no_ignore(R, func, requires, d) ==
    IF requires = <<>>
    THEN [kind |-> "None", requirements |-> NoRequirements]
    ELSE LET sp == split_requirements(requires)
             keys == DOMAIN d.instances
             absent(r) == r \notin keys
             disjoint(r) == Range(r) \cap keys = {}
             req_all == SelectSeq(sp[1], absent)
             req_any == SelectSeq(sp[2], disjoint)
         IN  IF req_all # <<>> \/ req_any # <<>>
             THEN [kind |-> "missing", requirements |-> <<req_all, req_any>>]
             ELSE [kind |-> "None", requirements |-> NoRequirements]

\* Variant of get_missing_requirements: an any-of group counts as met only
\* when all of its members are present.
get_missing_requirements_group_needs_all(R, func, requires, d) ==
    IF requires = <<>>
    THEN [kind |-> "None", requirements |-> NoRequirements]
    ELSE IF \E i \in R.IGNORE[func] : Broker_contains(d, i)
    THEN [kind |-> "SkipComponent", requirements |-> NoRequirements]
    ELSE LET sp == split_requirements(requires)
             keys == DOMAIN d.instances
             absent(r) == r \notin keys
             unmet(r) == ~(Range(r) \subseteq keys)
             req_all == SelectSeq(sp[1], absent)
             req_any == SelectSeq(sp[2], unmet)
         IN  IF req_all # <<>> \/ req_any # <<>>
             THEN [kind |-> "missing", requirements |-> <<req_all, req_any>>]
             ELSE [kind |-> "None", requirements |-> NoRequirements]

\* get_missing_requirements(func, requires, d), lines 409-421.  The result
\* is None, a raised SkipComponent, or the pair (req_all, req_any).
get_missing_requirements(R, func, requires, d) ==
    IF requires = <<>>
    THEN [kind |-> "None", requirements |-> NoRequirements]
    ELSE IF \E i \in R.IGNORE[func] : Broker_contains(d, i)
    THEN [kind |-> "SkipComponent", requirements |-> NoRequirements]
    ELSE LET sp == split_requirements(requires)
             keys == DOMAIN d.instances
             absent(r) == r \notin keys
             disjoint(r) == Range(r) \cap keys = {}
             req_all == SelectSeq(sp[1], absent)
             req_any == SelectSeq(sp[2], disjoint)
         IN  IF req_all # <<>> \/ req_any # <<>>
             THEN [kind |-> "missing", requirements |-> <<req_all, req_any>>]
             ELSE [kind |-> "None", requirements |-> NoRequirements]

\* Variant of the argument walk: a list entry is appended like a singleton,
\* so only its first member is looked up.
RECURSIVE executor_args_append_group(_)
executor_args_append_group(requires) ==
    IF requires = <<>> THEN <<>>
    ELSE <<Head(requires).items[1]>>
             \o executor_args_append_group(Tail(requires))

\* default_executor, lines 439-445: the components looked up, in order
RECURSIVE executor_args(_)
executor_args(requires) ==
    IF requires = <<>> THEN <<>>
    ELSE LET r == Head(requires)
         IN  (IF IsList(r) THEN r.items ELSE <<r.items[1]>>)
                 \o executor_args(Tail(requires))

\* default_executor, lines 436-447.  The result says how the call ends
\* before the component runs (MissingRequirements, SkipComponent) or with
\* which positional arguments the component is called.
default_executor(R, func, b, requires, optional) ==
    LET missing_requirements == get_missing_requirements(R, func, requires, b)
    IN  IF missing_requirements.kind = "SkipComponent"
        THEN [cls |-> "SkipComponent", requirements |-> NoRequirements,
              args |-> <<>>]
        ELSE IF missing_requirements.kind = "missing"
        THEN [cls |-> "MissingRequirements",
              requirements |-> missing_requirements.requirements,
              args |-> <<>>]
        ELSE LET args == executor_args(requires) \o optional
             IN  [cls |-> "call", requirements |-> NoRequirements,
                  args |-> [i \in 1..Len(args) |-> Broker_get(b, args[i])]]

\* broker_executor, lines 424-428: the component is called with the broker
broker_executor(R, func, b, requires, optional) ==
    LET missing_requirements == get_missing_requirements(R, func, requires, b)
    IN  IF missing_requirements.kind = "SkipComponent"
        THEN [cls |-> "SkipComponent", requirements |-> NoRequirements,
              args |-> <<>>]
        ELSE IF missing_requirements.kind = "missing"
        THEN [cls |-> "MissingRequirements",
              requirements |-> missing_requirements.requirements,
              args |-> <<>>]
        ELSE [cls |-> "call", requirements |-> NoRequirements,
              args |-> <<"broker">>]

\* Delegate.__call__, lines 490-491
Delegate_call(R, self, b) ==
    LET d == R.delegates[self]
    IN  IF d.executor = "broker_executor"
        THEN broker_executor(R, d.component, b, d.requires, d.optional)
        ELSE default_executor(R, d.component, b, d.requires, d.optional)

\* What a component body does when it is called: it returns a value, raises
\* an ordinary exception, or raises SkipComponent.
BodyOutcomes == BodyValues \cup {"raise", "SkipComponent"}

\* ------------------------------------------------------------------------
\* The run loop.
\* ------------------------------------------------------------------------

\* The nodes toposort_flatten orders: the keys of the graph and every
\* component named in a dependency set.
GraphNodes(g) == DOMAIN g \cup UNION {g[c] : c \in DOMAIN g}

GraphDeps(g, c) == IF c \in DOMAIN g THEN g[c] ELSE {}

Perms(S) ==
    {s \in [1..Cardinality(S) -> S] :
        \A i, j \in 1..Cardinality(S) : s[i] = s[j] => i = j}

\* insights.contrib.toposort.toposort_flatten: the orders it may return, every
\* component after all of its dependencies in the graph.  A cyclic graph has
\* none (the call raises).
toposort_flatten(g) ==
    {s \in Perms(GraphNodes(g)) :
        \A i \in 1..Len(s) :
            \A d \in GraphDeps(g, s[i]) \ {s[i]} :
                \E j \in 1..(i - 1) : s[j] = d}

\* Variant of run_order: the components in any order, unsorted.
run_order_unsorted(components) == Perms(GraphNodes(components))

\* run_order(components, broker), lines 569-573
run_order(components) == toposort_flatten(components)

\* Variant of line 585: a component already in the broker is invoked again.
should_invoke_present_too(R, b, component) ==
    component \in DOMAIN R.DELEGATES

\* run, line 585: whether the delegate is invoked
should_invoke(R, b, component) ==
    ~Broker_contains(b, component) /\ component \in DOMAIN R.DELEGATES

\* Variant of line 603: the time is recorded only for a component that has
\* a value in the broker.
record_exec_time_on_success(b, component) ==
    IF Broker_contains(b, component)
    THEN [b EXCEPT !.exec_times = @ \cup {component}]
    ELSE b

\* run, line 603, in the finally clause: broker.exec_times[component] = ...
record_exec_time(b, component) ==
    [b EXCEPT !.exec_times = @ \cup {component}]

\* run, lines 583-603: the body of the for loop for one component, up to and
\* including exec_times; `body` is what the component does if it is called.
run_iteration(R, b, component, body) ==
    LET try == should_invoke(R, b, component)
        res == IF try THEN Delegate_call(R, R.DELEGATES[component], b)
               ELSE [cls |-> "pass", requirements |-> NoRequirements,
                     args |-> <<>>]
        out == IF ~try
               THEN (IF Broker_contains(b, component) THEN "present"
                     ELSE "no delegate")
               ELSE IF res.cls = "MissingRequirements" THEN "missing"
               ELSE IF res.cls = "SkipComponent" THEN "skip"
               ELSE IF body = "raise" THEN "exception"
               ELSE IF body = "SkipComponent" THEN "skip"
               ELSE IF Broker_setitem_raises(b, component) THEN "exception"
               ELSE "value"
        b1 == IF out = "missing"
              THEN Broker_add_exception(b, component, res)
              ELSE IF out = "exception"
              THEN Broker_add_exception(b, component,
                       [cls |-> "Exception", requirements |-> NoRequirements,
                        args |-> <<>>])
              ELSE IF out = "value"
              THEN Broker_setitem(b, component, body)
              ELSE b
    IN  [broker |-> record_exec_time(b1, component),
         outcome |-> out,
         invoked |-> try,
         called |-> try /\ res.cls = "call",
         args |-> res.args]

\*   broker     the Broker run() works on
\*   pc         "idle" outside run(), "loop" at the head of the for loop,
\*              "observers" inside fire_observers
\*   graph      the `components` argument of the current (or last) run
\*   order      run_order(components), idx the position of the loop in it
\*   pending    the observers fire_observers has still to call
\*   runs, puts how often run() and broker[c] = v have been called
\* History of the current run, for stating the properties:
\*   processed  component -> iterations of the loop made for it
\*   invoked    component -> calls of its delegate
\*   called     component -> calls of the component itself
\*   lastArgs   component -> positional arguments of its last call
\*   outcome    component -> disposition of its iteration
\*   fired      component -> (observer -> calls of it for the component)
\*   logged     observers that raised (and were logged) in the fire_observers
\*              call in progress
\*   startBroker the broker as it was when run() was entered
VARIABLES broker, pc, graph, order, idx, pending, runs, puts,
          processed, invoked, called, lastArgs, outcome, fired, logged,
          startBroker

runVars == <<broker, pc, graph, order, idx, pending, runs, puts,
             processed, invoked, called, lastArgs, outcome, fired, logged,
             startBroker>>

\* get_subgraphs and run_incremental:
\*   components  the mapping passed as `graph` / `components`
\*   keys, frontier, seen   the three local sets of get_subgraphs
\*   subgraphs   the mappings get_subgraphs has yielded so far
\*   seed_broker the broker whose instances seed every sub-broker
\*   yielded     the brokers run_incremental has yielded so far
VARIABLES components, keys, frontier, seen, subgraphs, seed_broker, yielded

incVars == <<components, keys, frontier, seen, subgraphs, seed_broker, yielded>>

\* Broker objects side by side:
\*   brokers     the Broker objects constructed so far
\*   snapshots   broker -> TYPE_OBSERVERS as it was when the broker was made
\*   additions   broker -> (type -> observers added through the broker)
\*   lastPut     the broker[c] = value just made, if the last step was one:
\*               <<[broker, component, instance, raised, before]>>, else <<>>
VARIABLES brokers, snapshots, additions, lastPut

objVars == <<brokers, snapshots, additions, lastPut>>

\* walk_dependencies:
\*   root        the component the walk starts from
\*   stack       the activations of the inner visit(): the parent and the
\*               dependencies of it the for loop has still to take
\*   visits      the calls visitor(component, parent) made so far, in order
VARIABLES root, stack, visits

walkVars == <<root, stack, visits>>

extVars == <<incVars, objVars, walkVars>>

vars == <<regVars, runVars, extVars>>

\* Nothing but run() is in progress.
InitExt ==
    /\ components = EmptyMap
    /\ keys = {}
    /\ frontier = {}
    /\ seen = {}
    /\ subgraphs = <<>>
    /\ seed_broker = Broker(EmptyRegistry, EmptyMap)
    /\ yielded = <<>>
    /\ brokers = <<>>
    /\ snapshots = <<>>
    /\ additions = <<>>
    /\ lastPut = <<>>
    /\ root = None
    /\ stack = <<>>
    /\ visits = <<>>

NoHistory ==
    /\ processed = [c \in Comps |-> 0]
    /\ invoked = [c \in Comps |-> 0]
    /\ called = [c \in Comps |-> 0]
    /\ lastArgs = [c \in Comps |-> <<>>]
    /\ outcome = [c \in Comps |-> "none"]
    /\ fired = [c \in Comps |-> [o \in Observers |-> 0]]
    /\ logged = {}

ResetHistory ==
    /\ processed' = [c \in Comps |-> 0]
    /\ invoked' = [c \in Comps |-> 0]
    /\ called' = [c \in Comps |-> 0]
    /\ lastArgs' = [c \in Comps |-> <<>>]
    /\ outcome' = [c \in Comps |-> "none"]
    /\ fired' = [c \in Comps |-> [o \in Observers |-> 0]]
    /\ logged' = {}

InitRun(R) ==
    /\ broker = Broker(R, EmptyMap)
    /\ startBroker = Broker(R, EmptyMap)
    /\ pc = "idle"
    /\ graph = EmptyMap
    /\ order = <<>>
    /\ idx = 0
    /\ pending = {}
    /\ runs = 0
    /\ puts = 0
    /\ NoHistory

\* The registries the runs start from: observers added, then every component
\* decorated at most once, then at most one add_ignore.
WithObservers ==
    add_observer(add_observer(add_observer(EmptyRegistry,
        "o1", "T1"), "o1", ANY_TYPE), "o2", "T1")

RegistriesA ==
    {WithObservers,
     Decorate(WithObservers, "A", <<>>, <<>>, "single", "T1",
              "default_executor"),
     register_component(
         DelegateInit(WithObservers, "A", <<>>, <<>>, None, None,
                      "default_executor"), 1)}

RegistriesB ==
    {Decorate(R, "B", req, <<>>, "single", "T2", "default_executor") :
        R \in RegistriesA, req \in {<<>>, <<One("A")>>}}

RequiresC ==
    { << <<AnyOf(<<"A", "B">>)>>, <<>> >>,
      << <<One("A")>>, <<"B">> >>,
      << <<One("B"), AnyOf(<<"A">>)>>, <<>> >>,
      << <<One("B"), One("A")>>, <<>> >> }

RegistriesC ==
    {Decorate(R, "C", ro[1], ro[2], "single", "T1", "default_executor") :
        R \in RegistriesB, ro \in RequiresC}

RunRegistries ==
    RegistriesC
    \cup {add_ignore(R, "A", "B") : R \in RegistriesC}
    \cup {add_ignore(R, "C", "B") : R \in RegistriesC}

Init == \E R \in RunRegistries : InitRegistry(R) /\ InitRun(R) /\ InitExt

\* broker[component] = instance, by the caller, before the first run
Put(component, instance) ==
    /\ pc = "idle"
    /\ runs = 0
    /\ puts < MaxPuts
    /\ puts' = puts + 1
    /\ broker' = Broker_setitem(broker, component, instance)
    /\ UNCHANGED <<extVars, regVars, pc, graph, order, idx, pending, runs,
                   processed,
                   invoked, called, lastArgs, outcome, fired, logged,
                   startBroker>>

\* run(COMPONENTS[GROUPS.single], broker): entry, up to the for loop
StartRun ==
    /\ pc = "idle"
    /\ runs < MaxRuns
    /\ runs' = runs + 1
    /\ graph' = COMPONENTS["single"]
    /\ \E o \in run_order(COMPONENTS["single"]) : order' = o
    /\ idx' = 1
    /\ pc' = "loop"
    /\ pending' = {}
    /\ startBroker' = broker
    /\ ResetHistory
    /\ UNCHANGED <<extVars, regVars, broker, puts>>

\* One iteration of the for loop, up to the call of fire_observers
Execute ==
    /\ pc = "loop"
    /\ idx <= Len(order)
    /\ LET component == order[idx]
       IN  \E body \in BodyOutcomes :
             LET r == run_iteration(Registry, broker, component, body)
             IN  /\ broker' = r.broker
                 /\ processed' = [processed EXCEPT ![component] = @ + 1]
                 /\ invoked' = [invoked EXCEPT
                                  ![component] = @ + (IF r.invoked THEN 1 ELSE 0)]
                 /\ called' = [called EXCEPT
                                  ![component] = @ + (IF r.called THEN 1 ELSE 0)]
                 /\ lastArgs' = [lastArgs EXCEPT
                                  ![component] = IF r.called THEN r.args ELSE @]
                 /\ outcome' = [outcome EXCEPT ![component] = r.outcome]
                 /\ pending' = fire_observers_set(Registry, r.broker, component)
    /\ pc' = "observers"
    /\ logged' = {}
    /\ UNCHANGED <<extVars, regVars, graph, order, idx, runs, puts, fired,
                   startBroker>>

\* Variant of the except clause of fire_observers: the exception ends the
\* for loop, the observers not yet called are dropped.
fire_observers_except_breaks(b, rest) == [broker |-> b, pending |-> {}]

\* fire_observers, lines 358-359: the observer called raised; the exception
\* is logged and the for loop goes on with the observers not yet called
fire_observers_except(b, rest) == [broker |-> b, pending |-> rest]

\* fire_observers, lines 355-359: one observer called; it may raise, which
\* is caught and logged
FireObserver(o) ==
    /\ pc = "observers"
    /\ o \in pending
    /\ fired' = [fired EXCEPT ![order[idx]][o] = @ + 1]
    /\ \E raises \in BOOLEAN :
          LET r == IF raises
                   THEN fire_observers_except(broker, pending \ {o})
                   ELSE [broker |-> broker, pending |-> pending \ {o}]
          IN  /\ broker' = r.broker
              /\ pending' = r.pending
              /\ logged' = IF raises THEN logged \cup {o} ELSE logged
    /\ UNCHANGED <<extVars, regVars, pc, graph, order, idx, runs, puts,
                   processed, invoked, called, lastArgs, outcome, startBroker>>

\* fire_observers returns; the loop moves to the next component
NextComponent ==
    /\ pc = "observers"
    /\ pending = {}
    /\ idx' = idx + 1
    /\ pc' = "loop"
    /\ logged' = {}
    /\ UNCHANGED <<extVars, regVars, broker, graph, order, pending, runs, puts,
                   processed, invoked, called, lastArgs, outcome, fired,
                   startBroker>>

\* the for loop is exhausted: return broker
Return ==
    /\ pc = "loop"
    /\ idx > Len(order)
    /\ pc' = "idle"
    /\ UNCHANGED <<extVars, regVars, broker, graph, order, idx, pending, runs,
                   puts,
                   processed, invoked, called, lastArgs, outcome, fired,
                   logged, startBroker>>

Next ==
    \/ \E c \in Comps, v \in SeedValues : Put(c, v)
    \/ StartRun
    \/ Execute
    \/ \E o \in Observers : FireObserver(o)
    \/ NextComponent
    \/ Return

Spec == Init /\ [][Next]_vars

\* ------------------------------------------------------------------------
\* Properties of the run loop (specification Spec).
\* ------------------------------------------------------------------------

\* The position of a processed component in the current order.
Pos(c) == CHOOSE i \in 1..Len(order) : order[i] = c

Reached(c) == processed[c] > 0

\* The keys the broker held when the loop reached component c: those it
\* was entered with and the values stored for earlier components.
KeysWhenReached(c) ==
    DOMAIN startBroker.instances
        \cup {y \in DOMAIN broker.instances : Reached(y) /\ Pos(y) < Pos(c)}

Registered(c) == c \in DOMAIN DELEGATES
DelegateOf(c) == delegates[DELEGATES[c]]

RequiresSingle(x, c) ==
    /\ Registered(x)
    /\ \E i \in 1..Len(DelegateOf(x).requires) :
          /\ ~DelegateOf(x).requires[i].isList
          /\ DelegateOf(x).requires[i].items[1] = c

IgnoreHit(c) == IGNORE[c] \cap KeysWhenReached(c) # {}

Returned == pc = "idle" /\ runs > 0

\* C1: during run(g) every component of g is processed exactly once, and a
\* delegate is invoked only after every dependency that g lists for its
\* component has been processed in the same run.
C1_ProcessedOnceAfterDependencies ==
    /\ \A c \in Comps : processed[c] <= 1 /\ invoked[c] <= processed[c]
    /\ Returned => \A c \in GraphNodes(graph) : processed[c] = 1
    /\ \A c \in Comps :
          invoked[c] > 0 => \A d \in GraphDeps(graph, c) : processed[d] = 1

C1_Witness ==
    /\ Returned
    /\ graph["C"] = {"A", "B"}
    /\ graph["B"] = {"A"}
    /\ invoked["A"] = 1 /\ invoked["B"] = 1 /\ invoked["C"] = 1

\* C2 as stated: when a component body raises an ordinary exception the
\* run goes on, the exception is appended to exceptions[c], c gets no
\* value, and EVERY later component requiring c as a singleton gets no
\* value and a missing_requirements entry whose first list contains c.
C2_Original ==
    \A c \in Comps :
        outcome[c] = "exception" =>
            /\ c \notin DOMAIN broker.instances
            /\ c \in DOMAIN broker.exceptions
            /\ Returned => \A x \in GraphNodes(graph) : Reached(x)
            /\ \A x \in Comps :
                  (Reached(x) /\ Pos(x) > Pos(c) /\ RequiresSingle(x, c)) =>
                      /\ x \notin DOMAIN broker.instances
                      /\ x \in DOMAIN broker.missing_requirements
                      /\ c \in Range(broker.missing_requirements[x][1])

\* C2, amended: the same, for the later components that are not already in
\* the broker and have no ignore trigger in the broker when reached.
C2_FailureIsolated ==
    \A c \in Comps :
        outcome[c] = "exception" =>
            /\ c \notin DOMAIN broker.instances
            /\ c \in DOMAIN broker.exceptions
            /\ Len(broker.exceptions[c]) =
                 1 + (IF c \in DOMAIN startBroker.exceptions
                      THEN Len(startBroker.exceptions[c]) ELSE 0)
            /\ Returned => \A x \in GraphNodes(graph) : Reached(x)
            /\ \A x \in Comps :
                  (/\ Reached(x) /\ Pos(x) > Pos(c) /\ RequiresSingle(x, c)
                   /\ x \notin DOMAIN startBroker.instances
                   /\ ~IgnoreHit(x)) =>
                      /\ called[x] = 0
                      /\ x \notin DOMAIN broker.instances
                      /\ x \in DOMAIN broker.missing_requirements
                      /\ c \in Range(broker.missing_requirements[x][1])

C2_Witness ==
    /\ Returned
    /\ outcome["A"] = "exception"
    /\ RequiresSingle("B", "A")
    /\ outcome["B"] = "missing"
    /\ broker.missing_requirements["B"] = << <<"A">>, <<>> >>
    /\ "B" \notin DOMAIN broker.instances
    /\ Reached("C")

InContainers(b, c) ==
    (IF c \in DOMAIN b.instances THEN 1 ELSE 0)
        + (IF c \in DOMAIN b.missing_requirements THEN 1 ELSE 0)
        + (IF c \in DOMAIN b.exceptions THEN 1 ELSE 0)

\* C3 as stated: after run(g) returns no component of g is in two of
\* instances, missing_requirements and exceptions, for ANY broker passed
\* to run, one returned by an earlier run included.
C3_Original ==
    Returned => \A c \in GraphNodes(graph) : InContainers(broker, c) <= 1

\* C3, amended: the same for a broker that holds no missing_requirements
\* and no exceptions entry for a component of g when it is passed to run
\* (a fresh or a seeded broker).
C3_OneContainer ==
    (/\ Returned
     /\ DOMAIN startBroker.missing_requirements \cap GraphNodes(graph) = {}
     /\ DOMAIN startBroker.exceptions \cap GraphNodes(graph) = {})
        => \A c \in GraphNodes(graph) :
              /\ InContainers(broker, c) <= 1
              /\ InContainers(broker, c) = 0 <=>
                    outcome[c] \in {"skip", "no delegate"}

C3_Witness ==
    /\ Returned
    /\ DOMAIN startBroker.instances = {"B"}
    /\ outcome["A"] = "exception"
    /\ outcome["B"] = "present"
    /\ outcome["C"] = "skip"
    /\ InContainers(broker, "C") = 0

\* The component whose iteration has just been made (fire_observers is
\* running for it): the broker is the one its delegate saw, plus its result.
JustProcessed(c) == pc = "observers" /\ order[idx] = c

UsesDefaultExecutor(c) ==
    Registered(c) /\ DelegateOf(c).executor = "default_executor"

NumSingles(requires) == Len(SelectSeq(requires, IsSingle))

RECURSIVE NumMembers(_)
NumMembers(requires) ==
    IF requires = <<>> THEN 0
    ELSE (IF Head(requires).isList THEN Len(Head(requires).items) ELSE 0)
            + NumMembers(Tail(requires))

\* The components named by a requires spec, entry by entry, in declared
\* order.
DeclaredOrder(requires) ==
    Flatten([i \in 1..Len(requires) |-> requires[i].items])

\* C4 as stated: default_executor passes each any-of group as ONE
\* positional argument, so the number of positional arguments is the number
\* of entries of requires plus the number of optional entries.
C4_Original ==
    \A c \in Comps :
        (JustProcessed(c) /\ called[c] = 1 /\ UsesDefaultExecutor(c)) =>
            Len(lastArgs[c]) =
                Len(DelegateOf(c).requires) + Len(DelegateOf(c).optional)

\* C4, amended: default_executor passes every member of an any-of group as
\* a positional argument of its own: the arguments are broker.get(a), None
\* where a is absent, for the singletons and group members of requires in
\* declared order, then for the optional entries; their number is the
\* number of singletons plus the number of group members plus the number of
\* optional entries.
C4_GroupMembersAreSeparateArguments ==
    \A c \in Comps :
        (JustProcessed(c) /\ called[c] = 1 /\ UsesDefaultExecutor(c)) =>
            LET d == DelegateOf(c)
                names == DeclaredOrder(d.requires) \o d.optional
            IN  /\ Len(lastArgs[c]) =
                     NumSingles(d.requires) + NumMembers(d.requires)
                         + Len(d.optional)
                /\ Len(lastArgs[c]) = Len(names)
                /\ \A i \in 1..Len(names) :
                      lastArgs[c][i] =
                          IF names[i] \in DOMAIN broker.instances
                          THEN broker.instances[names[i]] ELSE None

C4_Witness ==
    /\ JustProcessed("C")
    /\ called["C"] = 1
    /\ DelegateOf("C").requires = <<AnyOf(<<"A", "B">>)>>
    /\ outcome["B"] = "exception"
    /\ lastArgs["C"] = <<"v1", None>>

\* C5 as stated: for every registered component, whatever its requires
\* spec, if an element of ignore[c] is a key of the broker when run reaches
\* c, the body is not invoked and the broker holds no value, no exception
\* and no missing-requirements entry for c.
C5_Original ==
    \A c \in Comps :
        (Reached(c) /\ Registered(c) /\ IgnoreHit(c)) =>
            /\ called[c] = 0
            /\ c \notin DOMAIN broker.instances
            /\ c \notin DOMAIN broker.exceptions
            /\ c \notin DOMAIN broker.missing_requirements

EntryOf(m, c) == IF c \in DOMAIN m THEN <<m[c]>> ELSE <<>>

\* C5, amended: for every registered component with a NON-EMPTY requires
\* spec that is not already in the broker, if an element of ignore[c] is a
\* key of the broker when run reaches c, the body is not invoked and the run
\* records no value, no exception and no missing-requirements entry for c.
C5_IgnoreSkips ==
    \A c \in Comps :
        (/\ Reached(c) /\ Registered(c) /\ IgnoreHit(c)
         /\ DelegateOf(c).requires # <<>>
         /\ c \notin DOMAIN startBroker.instances) =>
            /\ called[c] = 0
            /\ outcome[c] = "skip"
            /\ c \notin DOMAIN broker.instances
            /\ EntryOf(broker.exceptions, c) = EntryOf(startBroker.exceptions, c)
            /\ EntryOf(broker.missing_requirements, c) =
                   EntryOf(startBroker.missing_requirements, c)
            /\ c \in broker.exec_times

C5_Witness ==
    /\ Returned
    /\ runs = 1
    /\ IGNORE["C"] = {"B"}
    /\ outcome["B"] = "value"
    /\ Pos("B") < Pos("C")
    /\ outcome["C"] = "skip"
    /\ invoked["C"] = 1
    /\ InContainers(broker, "C") = 0

C7_ExecTimesForAll ==
    /\ Returned => GraphNodes(graph) \subseteq broker.exec_times
    /\ \A c \in Comps : Reached(c) => c \in broker.exec_times

C7_Witness ==
    /\ Returned
    /\ runs = 1
    /\ outcome["A"] = "no delegate"
    /\ outcome["B"] = "missing"
    /\ outcome["C"] = "present"
    /\ broker.exec_times = {"A", "B", "C"}

\* The observers the broker holds under the component's type or under ANY.
ObserversFor(c) ==
    IF Registered(c) /\ DelegateOf(c).type # None
    THEN {o \in Observers :
            o \in broker.observers[DelegateOf(c).type]
                \/ o \in broker.observers[ANY_TYPE]}
    ELSE {}

FiredOnce(c) ==
    \A o \in Observers : fired[c][o] = (IF o \in ObserversFor(c) THEN 1 ELSE 0)

\* C8: during run(g), for every component with a registered type, every
\* observer the broker holds under that type or under ANY is invoked exactly
\* once for it (once too when registered under both), after the component's
\* outcome has been recorded and before the next component is invoked.
C8_ObserversFireOnce ==
    /\ \A c \in Comps : \A o \in Observers :
          /\ fired[c][o] <= 1
          /\ fired[c][o] = 1 =>
                /\ o \in ObserversFor(c)
                /\ processed[c] = 1
                /\ outcome[c] # "none"
                /\ c \in broker.exec_times
    /\ pc # "idle" =>
          /\ \A i \in 1..Len(order) :
                i < idx => FiredOnce(order[i])
          /\ \A i \in 1..Len(order) :
                i > idx => processed[order[i]] = 0
          /\ (pc = "loop" /\ idx <= Len(order)) => processed[order[idx]] = 0
    /\ Returned => \A c \in GraphNodes(graph) : FiredOnce(c)

C8_Witness ==
    /\ Returned
    /\ DelegateOf("C").type = "T1"
    /\ "o1" \in broker.observers["T1"] \cap broker.observers[ANY_TYPE]
    /\ fired["C"] = [o \in Observers |-> 1]
    /\ fired["B"] = [o \in Observers |-> IF o = "o1" THEN 1 ELSE 0]
    /\ Registered("A") /\ DelegateOf("A").type = None
    /\ invoked["A"] = 1
    /\ fired["A"] = [o \in Observers |-> 0]

\* The number of entries of exceptions[c].
NumExceptions(b, c) ==
    IF c \in DOMAIN b.exceptions THEN Len(b.exceptions[c]) ELSE 0

\* An observer has raised while being fired for the component the loop is at.
ObserverRaised == pc = "observers" /\ logged # {}

\* C15: an observer that raises while being fired for component c does not
\* abort the run, does not add c to broker.exceptions, does not remove c's
\* value from broker.instances, and does not keep the other observers
\* registered for c from being invoked.
C15_ObserverFailureIsolated ==
    /\ [](ObserverRaised =>
            LET c == order[idx]
            IN  /\ \A o \in ObserversFor(c) : fired[c][o] = 1 \/ o \in pending
                /\ logged \subseteq ObserversFor(c)
                /\ NumExceptions(broker, c) =
                      NumExceptions(startBroker, c)
                          + (IF outcome[c] = "exception" THEN 1 ELSE 0)
                /\ outcome[c] \in {"value", "present"} =>
                      c \in DOMAIN broker.instances
                /\ outcome[c] = "value" => broker.instances[c] \in BodyValues)
    /\ [][logged' \notin {logged, {}} =>
            /\ broker' = broker
            /\ pc' = "observers"
            /\ idx' = idx /\ order' = order]_vars

C15_Witness ==
    /\ pc = "observers"
    /\ order[idx] = "C"
    /\ logged = {"o1", "o2"}
    /\ pending = {}
    /\ fired["C"] = [o \in Observers |-> 1]
    /\ outcome["C"] = "value"
    /\ "C" \in DOMAIN broker.instances
    /\ "C" \notin DOMAIN broker.exceptions

\* The singletons of a requires spec that are not in K, and its any-of
\* groups without a member in K, both in declared order.
RECURSIVE AbsentSingles(_, _)
AbsentSingles(requires, K) ==
    IF requires = <<>> THEN <<>>
    ELSE (IF ~Head(requires).isList /\ Head(requires).items[1] \notin K
          THEN <<Head(requires).items[1]>> ELSE <<>>)
             \o AbsentSingles(Tail(requires), K)

RECURSIVE UnmetGroups(_, _)
UnmetGroups(requires, K) ==
    IF requires = <<>> THEN <<>>
    ELSE (IF Head(requires).isList
             /\ \A i \in 1..Len(Head(requires).items) :
                   Head(requires).items[i] \notin K
          THEN <<Head(requires).items>> ELSE <<>>)
             \o UnmetGroups(Tail(requires), K)

RequirementsMet(requires, K) ==
    \A i \in 1..Len(requires) :
        IF requires[i].isList
        THEN \E j \in 1..Len(requires[i].items) : requires[i].items[j] \in K
        ELSE requires[i].items[1] \in K

\* C17: for a non-empty requires spec with no ignore trigger present,
\* get_missing_requirements returns none exactly when every singleton of
\* requires is a key of the broker and every any-of group has a member that
\* is one; otherwise it returns the pair (singletons absent from the broker
\* in declared order, any-of groups with no member in the broker), and the
\* executor raises MissingRequirements without invoking the component.
C17_MissingRequirements ==
    \A c \in Comps :
        (/\ Reached(c) /\ invoked[c] = 1
         /\ DelegateOf(c).requires # <<>>
         /\ ~IgnoreHit(c)) =>
            LET requires == DelegateOf(c).requires
                K == KeysWhenReached(c)
            IN  IF RequirementsMet(requires, K)
                THEN /\ outcome[c] \in {"value", "exception", "skip"}
                     /\ called[c] = 1
                     /\ EntryOf(broker.missing_requirements, c) =
                            EntryOf(startBroker.missing_requirements, c)
                ELSE /\ outcome[c] = "missing"
                     /\ called[c] = 0
                     /\ c \notin DOMAIN broker.instances
                     /\ c \in DOMAIN broker.missing_requirements
                     /\ broker.missing_requirements[c] =
                            <<AbsentSingles(requires, K),
                              UnmetGroups(requires, K)>>

C17_Witness ==
    /\ Returned
    /\ runs = 1
    /\ DelegateOf("C").requires = <<One("B"), One("A")>>
    /\ order = <<"A", "B", "C">>
    /\ outcome["A"] = "exception"
    /\ outcome["B"] = "missing"
    /\ outcome["C"] = "missing"
    /\ broker.missing_requirements["C"] = << <<"B", "A">>, <<>> >>

\* C19: a component that is already a key of broker.instances when run
\* reaches it (the broker was seeded, or an earlier run stored it) is not
\* invoked and its stored value is the same after run as before; a component
\* of the graph with no registered delegate is not invoked and gets no
\* value, exception or missing-requirements entry.
C19_PresentOrUnregisteredNotInvoked ==
    /\ \A c \in DOMAIN startBroker.instances :
          /\ c \in DOMAIN broker.instances
          /\ broker.instances[c] = startBroker.instances[c]
          /\ invoked[c] = 0 /\ called[c] = 0
          /\ Reached(c) => outcome[c] = "present"
    /\ \A c \in Comps :
          (Reached(c) /\ ~Registered(c)) =>
              /\ invoked[c] = 0 /\ called[c] = 0
              /\ EntryOf(broker.instances, c) =
                     EntryOf(startBroker.instances, c)
              /\ EntryOf(broker.exceptions, c) =
                     EntryOf(startBroker.exceptions, c)
              /\ EntryOf(broker.missing_requirements, c) =
                     EntryOf(startBroker.missing_requirements, c)

C19_Witness ==
    /\ Returned
    /\ runs = 1
    /\ startBroker.instances = ("B" :> "v0")
    /\ outcome["B"] = "present"
    /\ broker.instances["B"] = "v0"
    /\ Registered("B")
    /\ ~Registered("A")
    /\ "A" \in GraphNodes(graph)
    /\ outcome["A"] = "no delegate"
    /\ InContainers(broker, "A") = 0
    /\ "A" \in broker.exec_times

\* ------------------------------------------------------------------------
\* The registry while components are being defined (specification SpecReg):
\* Delegate objects are constructed, registered, registered again and given
\* further dependencies, in any order.  No run is in progress.
\* ------------------------------------------------------------------------

\* How many Delegate objects are constructed, and how many add_dependency
\* calls are made.
MaxDelegates == 2
MaxAdded == 1

\* The definitions made: "A" without dependencies, "B" with one of three
\* (requires, optional) declarations; "C" is only ever named as a
\* dependency.  AddedDeps are the dependencies add_dependency is given.
RegDeclarations ==
    { << <<>>, <<>> >>,
      << <<One("A")>>, <<"C">> >>,
      << <<One("B"), AnyOf(<<"A", "C">>)>>, <<>> >> }

RegDefinitions ==
    { <<"A", <<>>, <<>> >> }
        \cup { <<"B", ro[1], ro[2]>> : ro \in RegDeclarations }

AddedDeps == {"A", "C"}

RECURSIVE SumAdded(_, _)
SumAdded(ds, n) ==
    IF n = 0 THEN 0 ELSE Len(ds[n].added_dependencies) + SumAdded(ds, n - 1)

InitReg == InitRegistry(EmptyRegistry) /\ InitRun(EmptyRegistry) /\ InitExt

\* Delegate(component, requires, optional), directly (group and type stay
\* None) or from the registrar's _f (lines 547-552), before line 553
NewDelegate(component, requires, optional, group) ==
    /\ Len(delegates) < MaxDelegates
    /\ SetRegistry(DelegateInit(Registry, component, requires, optional, group,
                                IF group = None THEN None ELSE "T1",
                                "default_executor"))
    /\ UNCHANGED <<runVars, extVars>>

\* register_component(delegate), for any Delegate object, registered before
\* or not
RegisterComponent(delegate) ==
    /\ delegate \in 1..Len(delegates)
    /\ SetRegistry(register_component(Registry, delegate))
    /\ UNCHANGED <<runVars, extVars>>

\* delegate.add_dependency(dep), on any Delegate object; add_dependency(
\* component, dep) is the call on DELEGATES[component]
AddDependency(delegate, dep) ==
    /\ delegate \in 1..Len(delegates)
    /\ SumAdded(delegates, Len(delegates)) < MaxAdded
    /\ SetRegistry(Delegate_add_dependency(Registry, delegate, dep))
    /\ UNCHANGED <<runVars, extVars>>

NextReg ==
    \/ \E def \in RegDefinitions, g \in GroupKeys :
          NewDelegate(def[1], def[2], def[3], g)
    \/ \E d \in 1..MaxDelegates : RegisterComponent(d)
    \/ \E d \in 1..MaxDelegates, dep \in AddedDeps : AddDependency(d, dep)

SpecReg == InitReg /\ [][NextReg]_vars

\* C9: after any sequence of delegate constructions, register_component
\* calls (re-registrations included) and add_dependency calls, for every c
\* and every d in DEPENDENCIES[c], c is in DEPENDENTS[d].
C9_DependenciesHaveDependents ==
    \A c \in DOMAIN DEPENDENCIES :
        \A d \in DependenciesOf(Registry, c) : c \in DEPENDENTS[d]

C9_Witness ==
    /\ Len(delegates) = 2
    /\ delegates[1].component = "B" /\ delegates[2].component = "B"
    /\ delegates[1].group = "cluster" /\ delegates[2].group = "single"
    /\ "B" \in DOMAIN COMPONENTS["cluster"]
    /\ "B" \in DOMAIN COMPONENTS["single"]
    /\ "B" \in DOMAIN DELEGATES
    /\ DELEGATES["B"] = 2
    /\ delegates[1].added_dependencies = <<"A">>
    /\ delegates[2].requires = <<>>
    /\ DependenciesOf(Registry, "B") = {"A"}

\* C10: the two indices mirror each other in the other direction too, after
\* every mutation: whenever c is in DEPENDENTS[d], d is in DEPENDENCIES[c].
C10_DependentsHaveDependencies ==
    \A d \in Comps : \A c \in DEPENDENTS[d] :
        c \in DOMAIN DEPENDENCIES /\ d \in DependenciesOf(Registry, c)

\* C11: after any sequence of register_component and add_dependency calls,
\* add_dependency through a delegate that re-registration has replaced
\* included, for every registered component c the set
\* DELEGATES[c].dependencies equals DEPENDENCIES[c].
C11_DelegateDependenciesAreDependencies ==
    \A c \in DOMAIN DELEGATES :
        /\ c \in DOMAIN DEPENDENCIES
        /\ delegates[DELEGATES[c]].dependencies = DependenciesOf(Registry, c)
        /\ get_dependencies(Registry, c) = DependenciesOf(Registry, c)

C11_Witness ==
    /\ Len(delegates) = 2
    /\ delegates[1].component = "B" /\ delegates[2].component = "B"
    /\ "B" \in DOMAIN DELEGATES
    /\ DELEGATES["B"] = 2
    /\ delegates[2].requires = <<>> /\ delegates[2].optional = <<>>
    /\ delegates[2].added_dependencies = <<>>
    /\ delegates[1].requires = <<>> /\ delegates[1].optional = <<>>
    /\ delegates[1].added_dependencies = <<"C">>
    /\ delegates[2].dependencies = {"C"}
    /\ DependenciesOf(Registry, "B") = {"C"}

\* C18: after any sequence of register_component and add_dependency calls,
\* re-registration with another requirement spec or another group included,
\* for every group g and every key c of COMPONENTS[g] the delegate of c has
\* group g and COMPONENTS[g][c] equals DEPENDENCIES[c].
C18_ComponentsReflectDependencies ==
    \A g \in GroupKeys : \A c \in DOMAIN COMPONENTS[g] :
        /\ c \in DOMAIN DELEGATES
        /\ delegates[DELEGATES[c]].group = g
        /\ c \in DOMAIN DEPENDENCIES
        /\ COMPONENTS[g][c] = DependenciesOf(Registry, c)

\* ------------------------------------------------------------------------
\* get_subgraphs and run_incremental (specification SpecInc): on a populated
\* registry, run_incremental(components, broker) is called once and its
\* generator is driven to exhaustion.
\* ------------------------------------------------------------------------

\* The variables of run() other than pc and broker.
loopVars == <<graph, order, idx, pending, runs, puts>>
historyVars == <<processed, invoked, called, lastArgs, outcome, fired, logged,
                 startBroker>>

\* The registries: every component defined by a registrar of type T1, some
\* of them defined a second time with another declaration.
Define(R, func, requires, group) ==
    Decorate(R, func, requires, <<>>, group, "T1", "default_executor")

IncRegistries ==
    LET a  == Define(EmptyRegistry, "A", <<>>, "single")
        ac == Define(EmptyRegistry, "A", <<>>, "cluster")
        ba == Define(a, "B", <<One("A")>>, "single")
    IN  { \* A, B and C unrelated
          Define(Define(a, "B", <<>>, "single"), "C", <<>>, "single"),
          \* B requires A; C alone
          Define(ba, "C", <<>>, "single"),
          \* C requires B, B requires A
          Define(ba, "C", <<One("B")>>, "single"),
          \* B and C require A, which is of another group
          Define(Define(ac, "B", <<One("A")>>, "single"),
                 "C", <<One("A")>>, "single"),
          \* B requires A, then B is defined again without requirements
          Define(Define(ba, "B", <<>>, "single"), "C", <<>>, "single"),
          \* C requires any of A, B, then is defined again requiring B
          Define(Define(Define(a, "B", <<>>, "single"),
                        "C", <<AnyOf(<<"A", "B">>)>>, "single"),
                 "C", <<One("B")>>, "single") }

\* The instances of the broker passed to run_incremental (none passed: the
\* empty dict of a new Broker).
IncSeeds == {EmptyMap, "A" :> "v0", "C" :> "v0"}

\* DEPENDENCIES as a mapping, the default `graph` of get_subgraphs
DependenciesMap(R) ==
    [c \in DOMAIN R.DEPENDENCIES |-> DependenciesOf(R, c)]

\* The caller's broker: Broker() and then broker[k] = v for the entries of m
RECURSIVE PutAll(_, _)
PutAll(b, m) ==
    IF DOMAIN m = {} THEN b
    ELSE LET k == CHOOSE x \in DOMAIN m : TRUE
         IN  PutAll(Broker_setitem(b, k, m[k]),
                    [x \in DOMAIN m \ {k} |-> m[x]])

InitInc ==
    \E R \in IncRegistries : InitRegistry(R) /\ InitRun(R) /\ InitExt

\* run_incremental, line 616, and get_subgraphs, lines 224-226; the mapping
\* passed is COMPONENTS[GROUPS.single] (the default of run_incremental) or
\* DEPENDENCIES (the default of get_subgraphs)
IncStart(seed_instances, mapping) ==
    /\ pc = "idle"
    /\ seed_broker' = PutAll(Broker(Registry, EmptyMap), seed_instances)
    /\ components' = IF mapping = "COMPONENTS" THEN COMPONENTS["single"]
                     ELSE DependenciesMap(Registry)
    /\ keys' = DOMAIN components'
    /\ frontier' = {}
    /\ seen' = {}
    /\ pc' = "keys"
    /\ UNCHANGED <<regVars, objVars, walkVars, subgraphs, yielded, broker,
                   loopVars, historyVars>>

\* get_subgraphs, lines 227-228: frontier.add(keys.pop())
SubPop ==
    /\ pc = "keys"
    /\ \E k \in keys :
          /\ keys' = keys \ {k}
          /\ frontier' = frontier \cup {k}
    /\ pc' = "frontier"
    /\ UNCHANGED <<regVars, objVars, walkVars, components, seen, subgraphs,
                   seed_broker, yielded, broker, loopVars, historyVars>>

\* get_subgraphs, lines 230-234: one pass of the inner while loop, for the
\* component frontier.pop() returned
get_subgraphs_step(R, g, front, sn, component) ==
    LET seen1 == sn \cup {component}
        f1 == (front \ {component})
                \cup {d \in get_dependencies(R, component) : d \in DOMAIN g}
        f2 == f1 \cup {d \in get_dependents(R, component) : d \in DOMAIN g}
    IN  [frontier |-> f2 \ seen1, seen |-> seen1]

SubVisit ==
    /\ pc = "frontier"
    /\ \E component \in frontier :
          LET r == get_subgraphs_step(Registry, components, frontier, seen,
                                      component)
          IN  frontier' = r.frontier /\ seen' = r.seen
    /\ UNCHANGED <<regVars, objVars, walkVars, components, keys, subgraphs,
                   seed_broker, yielded, pc, broker, loopVars, historyVars>>

\* get_subgraphs, line 235: the mapping yielded
get_subgraphs_yield(R, sn) == [s \in sn |-> get_dependencies(R, s)]

\* get_subgraphs, lines 235-237, and run_incremental, lines 618-619 up to
\* the for loop of run: the mapping is yielded, a broker seeded from
\* seed_broker is made and run(graph, broker) is entered
IncYield ==
    /\ pc = "frontier"
    /\ frontier = {}
    /\ LET g == get_subgraphs_yield(Registry, seen)
       IN  /\ subgraphs' = Append(subgraphs, g)
           /\ graph' = g
           /\ \E o \in run_order(g) : order' = o
    /\ keys' = keys \ seen
    /\ seen' = {}
    /\ broker' = Broker(Registry, seed_broker.instances)
    /\ startBroker' = Broker(Registry, seed_broker.instances)
    /\ idx' = 1
    /\ pending' = {}
    /\ pc' = "loop"
    /\ processed' = [c \in Comps |-> 0]
    /\ invoked' = [c \in Comps |-> 0]
    /\ called' = [c \in Comps |-> 0]
    /\ lastArgs' = [c \in Comps |-> <<>>]
    /\ outcome' = [c \in Comps |-> "none"]
    /\ fired' = [c \in Comps |-> [o \in Observers |-> 0]]
    /\ logged' = {}
    /\ UNCHANGED <<regVars, objVars, walkVars, components, frontier,
                   seed_broker, yielded, runs, puts>>

\* run returns its broker (line 606), which run_incremental yields (619)
IncReturn ==
    /\ pc = "loop"
    /\ idx > Len(order)
    /\ yielded' = Append(yielded, broker)
    /\ pc' = "keys"
    /\ UNCHANGED <<regVars, objVars, walkVars, components, keys, frontier,
                   seen, subgraphs, seed_broker, broker, loopVars,
                   historyVars>>

\* get_subgraphs, line 227: keys is empty, the generators are exhausted
IncDone ==
    /\ pc = "keys"
    /\ keys = {}
    /\ pc' = "done"
    /\ UNCHANGED <<regVars, incVars, objVars, walkVars, broker, loopVars,
                   historyVars>>

NextInc ==
    \/ \E seed \in IncSeeds, mapping \in {"COMPONENTS", "DEPENDENCIES"} :
          IncStart(seed, mapping)
    \/ SubPop
    \/ SubVisit
    \/ IncYield
    \/ Execute
    \/ NextComponent
    \/ IncReturn
    \/ IncDone

SpecInc == InitInc /\ [][NextInc]_vars

\* The keys of `components` joined to a key of S by an undirected path of
\* dependency edges through keys of `components`.
DependencyEdge(a, b) ==
    b \in get_dependencies(Registry, a) \/ a \in get_dependencies(Registry, b)

RECURSIVE WeaklyConnected(_)
WeaklyConnected(S) ==
    LET N == S \cup {b \in DOMAIN components :
                        \E a \in S : DependencyEdge(a, b)}
    IN  IF N = S THEN S ELSE WeaklyConnected(N)

\* C12: get_subgraphs(graph) yields a partition of the key set of graph into
\* weakly connected components: every key in exactly one yielded mapping,
\* the key sets of the mappings pairwise disjoint, two keys in one mapping
\* exactly when an undirected path of dependency edges through keys of graph
\* joins them; for every registry reached by registrations and
\* re-registrations and every order of popping.
C12_SubgraphsPartition ==
    /\ \A i, j \in 1..Len(subgraphs) :
          i # j => DOMAIN subgraphs[i] \cap DOMAIN subgraphs[j] = {}
    /\ \A i \in 1..Len(subgraphs) :
          \A k \in DOMAIN subgraphs[i] :
              DOMAIN subgraphs[i] = WeaklyConnected({k})
    /\ pc = "done" =>
          \A k \in DOMAIN components :
              \E i \in 1..Len(subgraphs) : k \in DOMAIN subgraphs[i]

\* The entries of the seed broker are in b, with the seed's values.
HoldsSeed(b) ==
    \A k \in DOMAIN seed_broker.instances :
        /\ k \in DOMAIN b.instances
        /\ b.instances[k] = seed_broker.instances[k]

\* What C13 says of every reading: one broker per yielded mapping, each
\* started from a copy of the seed's instances and keeping them.
OneSeededBrokerPerMapping ==
    /\ Len(yielded) <= Len(subgraphs)
    /\ pc \in {"keys", "frontier", "done"} => Len(yielded) = Len(subgraphs)
    /\ pc \in {"loop", "observers"} =>
          /\ Len(yielded) + 1 = Len(subgraphs)
          /\ startBroker.instances = seed_broker.instances
          /\ HoldsSeed(broker)
    /\ \A i \in 1..Len(yielded) : HoldsSeed(yielded[i])

\* Running a partition changes neither the seed broker nor a broker that
\* has been yielded.
BrokersIndependent ==
    /\ pc # "idle" => seed_broker' = seed_broker
    /\ Len(yielded') >= Len(yielded)
    /\ \A i \in 1..Len(yielded) : yielded'[i] = yielded[i]

\* C13 as stated: run_incremental yields one broker per partition, each
\* started from a copy of the seed's instances; no run changes the seed or
\* another yielded broker; and each yielded broker holds, beyond the seed's
\* entries, only values of components of its own partition (the keys of the
\* mapping it was run on).
C13_Original ==
    /\ OneSeededBrokerPerMapping
    /\ \A i \in 1..Len(yielded) :
          DOMAIN yielded[i].instances \ DOMAIN seed_broker.instances
              \subseteq DOMAIN subgraphs[i]

BeyondSeedOnlyOwnGraph ==
    /\ \A i \in 1..Len(yielded) :
          DOMAIN yielded[i].instances \ DOMAIN seed_broker.instances
              \subseteq GraphNodes(subgraphs[i])
    /\ pc \in {"loop", "observers"} =>
          DOMAIN broker.instances \ DOMAIN seed_broker.instances
              \subseteq GraphNodes(graph)

\* C13, amended: run_incremental yields one broker per mapping get_subgraphs
\* yields, each started from a copy of the seed's instances; no run changes
\* the seed or a broker yielded before; and each yielded broker holds,
\* beyond the seed's entries, only values of components that are keys of
\* its mapping or are named in the mapping's dependency sets.
C13_IndependentSeededBrokers ==
    /\ [](OneSeededBrokerPerMapping /\ BeyondSeedOnlyOwnGraph)
    /\ [][BrokersIndependent]_vars

C13_Witness ==
    /\ pc = "done"
    /\ seed_broker.instances = ("C" :> "v0")
    /\ Len(yielded) = 2
    /\ \E i, j \in 1..2 :
          /\ DOMAIN subgraphs[i] = {"A", "B"}
          /\ yielded[i].instances = [c \in Comps |->
                                        IF c = "C" THEN "v0" ELSE "v1"]
          /\ DOMAIN subgraphs[j] = {"C"}
          /\ yielded[j].instances = ("C" :> "v0")

\* ------------------------------------------------------------------------
\* Broker objects (specification SpecObj): brokers are constructed, with or
\* without a seed, observers are added globally and through a broker, and
\* values are put into brokers.  No run is in progress.
\* ------------------------------------------------------------------------

\* How many Broker objects are constructed, and how many calls are made on
\* them and on the global observer table: the observer registrations held
\* plus the executions of broker[c] = value.
MaxBrokers == 2
MaxCalls == 2

\* The values put into a broker, the components they are put under and the
\* types observers are added under.
PutValues == SeedValues \cup BodyValues
PutComps == {"A", "B"}
ObserverTypes == {"T1", ANY_TYPE}

RECURSIVE SumOver(_, _)
SumOver(f, S) ==
    IF S = {} THEN 0
    ELSE LET x == CHOOSE y \in S : TRUE
         IN  Cardinality(f[x]) + SumOver(f, S \ {x})

RECURSIVE SumAdditions(_)
SumAdditions(n) ==
    IF n = 0 THEN 0 ELSE SumOver(additions[n], TypeKeys) + SumAdditions(n - 1)

\* The observer registrations held, globally and through brokers.
NumObservers == SumOver(TYPE_OBSERVERS, TypeKeys) + SumAdditions(Len(brokers))

InitObj == InitRegistry(EmptyRegistry) /\ InitRun(EmptyRegistry) /\ InitExt

\* add_observer(o, component_type), the module-level function
GlobalAddObserver(o, component_type) ==
    /\ NumObservers + puts < MaxCalls
    /\ SetRegistry(add_observer(Registry, o, component_type))
    /\ lastPut' = <<>>
    /\ UNCHANGED <<runVars, incVars, walkVars, brokers, snapshots, additions>>

\* Broker(seed_broker): seed is the index of the seed broker, 0 for none
NewBroker(seed) ==
    /\ Len(brokers) < MaxBrokers
    /\ seed \in 0..Len(brokers)
    /\ brokers' = Append(brokers,
                         Broker(Registry,
                                IF seed = 0 THEN EmptyMap
                                ELSE brokers[seed].instances))
    /\ snapshots' = Append(snapshots, TYPE_OBSERVERS)
    /\ additions' = Append(additions, [t \in TypeKeys |-> {}])
    /\ lastPut' = <<>>
    /\ UNCHANGED <<regVars, runVars, incVars, walkVars>>

\* brokers[b].add_observer(o, component_type)
BrokerAddObserver(b, o, component_type) ==
    /\ b \in 1..Len(brokers)
    /\ NumObservers + puts < MaxCalls
    /\ brokers' = [brokers EXCEPT
                     ![b] = Broker_add_observer(@, o, component_type)]
    /\ additions' = [additions EXCEPT ![b][component_type] = @ \cup {o}]
    /\ lastPut' = <<>>
    /\ UNCHANGED <<regVars, runVars, incVars, walkVars, snapshots>>

\* brokers[b][component] = instance
BrokerPut(b, component, instance) ==
    /\ b \in 1..Len(brokers)
    /\ NumObservers + puts < MaxCalls
    /\ puts' = puts + 1
    /\ brokers' = [brokers EXCEPT
                     ![b] = Broker_setitem(@, component, instance)]
    /\ lastPut' = <<[broker |-> b, component |-> component,
                     instance |-> instance,
                     raised |-> Broker_setitem_raises(brokers[b], component),
                     before |-> brokers[b]]>>
    /\ UNCHANGED <<regVars, incVars, walkVars, snapshots, additions, broker,
                   pc, graph, order, idx, pending, runs, historyVars>>

NextObj ==
    \/ \E o \in Observers, t \in ObserverTypes : GlobalAddObserver(o, t)
    \/ \E seed \in 0..MaxBrokers : NewBroker(seed)
    \/ \E b \in 1..MaxBrokers, o \in Observers, t \in ObserverTypes :
          BrokerAddObserver(b, o, t)
    \/ \E b \in 1..MaxBrokers, c \in PutComps, v \in PutValues :
          BrokerPut(b, c, v)

SpecObj == InitObj /\ [][NextObj]_vars

\* Every broker's table is the global table as it was when the broker was
\* constructed plus what was added through the broker.
ObserversAreSnapshot ==
    \A b \in 1..Len(brokers) : \A t \in TypeKeys :
        brokers[b].observers[t] = snapshots[b][t] \cup additions[b][t]

\* A global add_observer changes no broker; a broker's add_observer changes
\* neither the global table nor another broker.
ObserverTablesSeparate ==
    /\ TYPE_OBSERVERS' # TYPE_OBSERVERS =>
          \A b \in 1..Len(brokers) :
              brokers'[b].observers = brokers[b].observers
    /\ \A b \in 1..Len(brokers) :
          brokers'[b].observers # brokers[b].observers =>
              /\ TYPE_OBSERVERS' = TYPE_OBSERVERS
              /\ \A x \in 1..Len(brokers) :
                    x # b => brokers'[x].observers = brokers[x].observers

\* C14: a broker's observer table is a snapshot: at every moment it equals
\* the global TYPE_OBSERVERS table as it was when the broker was constructed
\* plus the observers added through that broker's own add_observer; a later
\* global add_observer does not change an existing broker, and a broker's
\* add_observer changes neither the global table nor any other broker.
C14_ObserverSnapshot ==
    []ObserversAreSnapshot /\ [][ObserverTablesSeparate]_vars

C14_Witness ==
    /\ Len(brokers) = 2
    /\ snapshots[1] = [t \in TypeKeys |-> {}]
    /\ TYPE_OBSERVERS = [t \in TypeKeys |-> IF t = ANY_TYPE THEN {"o1"} ELSE {}]
    /\ snapshots[2] = TYPE_OBSERVERS
    /\ brokers[2].observers = TYPE_OBSERVERS
    /\ brokers[1].observers =
          [t \in TypeKeys |-> IF t = "T1" THEN {"o2"} ELSE {}]

\* C16: broker[c] = value fails with an already-present error whenever c is
\* already a key of instances, leaving the stored value and every other
\* field of the broker unchanged; when c is absent it stores the value; in
\* neither case are observers fired.
C16_PutOnceOnly ==
    /\ [](lastPut # <<>> =>
            LET p == lastPut[1]
                b == brokers[p.broker]
            IN  /\ p.raised <=> p.component \in DOMAIN p.before.instances
                /\ p.raised => b = p.before
                /\ ~p.raised =>
                      /\ b.instances =
                            (p.component :> p.instance) @@ p.before.instances
                      /\ b = [p.before EXCEPT !.instances = b.instances])
    /\ [][lastPut' # <<>> =>
            /\ fired' = fired
            /\ pending' = pending
            /\ \A x \in 1..Len(brokers) :
                  x # lastPut'[1].broker => brokers'[x] = brokers[x]]_vars

C16_Witness ==
    /\ lastPut # <<>>
    /\ lastPut[1].raised
    /\ lastPut[1].component = "A"
    /\ lastPut[1].instance = "v1"
    /\ lastPut[1].before.instances = ("A" :> "v0")
    /\ brokers[lastPut[1].broker].instances = ("A" :> "v0")

\* ------------------------------------------------------------------------
\* walk_dependencies (specifications SpecWalk and FairWalk): on a populated
\* registry whose dependency relation is acyclic, walk_dependencies(root,
\* visitor) is called once.  The recursion of the inner visit() is the
\* stack; the for loop over a set takes its elements in any order.
\* ------------------------------------------------------------------------

\* Variant of the inner visit(): the recursive call is left out, only the
\* direct dependencies of root are visited.
visit_without_recursion(R, parent) == [parent |-> parent, todo |-> {}]

\* walk_dependencies, lines 188-189: a call visit(parent, visitor) starts a
\* for loop over get_dependencies(parent)
visit(R, parent) == [parent |-> parent, todo |-> get_dependencies(R, parent)]

InitWalk ==
    \E R \in RegistriesC : InitRegistry(R) /\ InitRun(R) /\ InitExt

\* walk_dependencies(r, visitor), lines 193-194: visitor(root, None), then
\* visit(root, visitor) is entered
WalkStart(r) ==
    /\ pc = "idle"
    /\ root' = r
    /\ visits' = <<[component |-> r, parent |-> None]>>
    /\ stack' = <<visit(Registry, r)>>
    /\ pc' = "walk"
    /\ UNCHANGED <<regVars, incVars, objVars, broker, loopVars, historyVars>>

\* lines 189-191: the for loop of the innermost visit() takes a dependency
\* d, calls visitor(d, parent) and enters visit(d, visitor)
WalkVisit ==
    /\ pc = "walk"
    /\ stack # <<>>
    /\ LET top == stack[Len(stack)]
       IN  \E d \in top.todo :
             /\ visits' = Append(visits,
                                 [component |-> d, parent |-> top.parent])
             /\ stack' = Append([stack EXCEPT ![Len(stack)].todo = @ \ {d}],
                                visit(Registry, d))
    /\ UNCHANGED <<regVars, incVars, objVars, root, pc, broker, loopVars,
                   historyVars>>

\* the for loop of the innermost visit() is exhausted: it returns; when it
\* was visit(root, visitor), walk_dependencies returns
WalkReturn ==
    /\ pc = "walk"
    /\ stack # <<>>
    /\ stack[Len(stack)].todo = {}
    /\ stack' = SubSeq(stack, 1, Len(stack) - 1)
    /\ pc' = IF Len(stack) = 1 THEN "done" ELSE "walk"
    /\ UNCHANGED <<regVars, incVars, objVars, root, visits, broker, loopVars,
                   historyVars>>

NextWalk ==
    \/ \E r \in Comps : WalkStart(r)
    \/ WalkVisit
    \/ WalkReturn

SpecWalk == InitWalk /\ [][NextWalk]_vars

\* The call, once made, keeps running: the interpreter takes the next step.
FairWalk == SpecWalk /\ WF_vars(NextWalk)

\* The dependencies the registry holds for c, and everything reachable from
\* a set of components through them.
DirectDependencies(c) ==
    IF Registered(c) THEN DelegateOf(c).dependencies ELSE {}

RECURSIVE ReachableFrom(_)
ReachableFrom(S) ==
    LET N == S \cup UNION {DirectDependencies(c) : c \in S}
    IN  IF N = S THEN S ELSE ReachableFrom(N)

Acyclic ==
    \A c \in Comps : c \notin ReachableFrom(DirectDependencies(c))

Visited == {visits[i].component : i \in 1..Len(visits)}

PreOrder ==
    /\ visits # <<>> => visits[1] = [component |-> root, parent |-> None]
    /\ \A i \in 2..Len(visits) :
          /\ visits[i].parent # None
          /\ visits[i].component \in DirectDependencies(visits[i].parent)
          /\ \E j \in 1..(i - 1) : visits[j].component = visits[i].parent
    /\ pc = "done" => Visited = ReachableFrom({root})

====
